---------------------------- MODULE Spec2Model ----------------------------
(***************************************************************************)
(* Model of the pyref-ccd FITS ingestion code:                             *)
(*   src/src/loader.rs  ExperimentType, FitsLoader, ExperimentLoader,      *)
(*                      read_experiment, simple_update                     *)
(*   src/src/enums.rs   ExperimentType (typed catalog), HeaderValue        *)
(*   src/src/lib.rs     CcdFits                                            *)
(*                                                                         *)
(* Several specifications share the module, one per part of the program:   *)
(*   Spec       directory ingestion (ExperimentLoader::new + to_polars),   *)
(*              with the rayon workers as interleaved steps                *)
(*   SpecMerge  the binary merge step (DataFrame::vstack_mut) on per-file  *)
(*              tables                                                     *)
(*   SpecImage  get_image / get_data of FitsLoader and CcdFits             *)
(*   SpecType   ExperimentType::from_str / get_keys                        *)
(*   SpecUpdate simple_update on a caller's table while files appear in    *)
(*              and vanish from the directory                              *)
(* A Rust panic is modelled as the outcome kind "panic".                   *)
(***************************************************************************)
EXTENDS Integers, Sequences, FiniteSets, Bags, TLC

VARIABLES
    \* ---- Spec: directory ingestion
    dirExists,      \* whether fs::read_dir(dir) succeeds
    entries,        \* the directory listing, in read_dir order
    expType,        \* the ExperimentType handed to ExperimentLoader::new
    pc,             \* position of the caller in read_experiment
    loadSlots,      \* per candidate: result of FitsLoader::new in the par_iter
    buildSlots,     \* per loaded file: result of FitsLoader::to_polars in the par_iter
    saved,          \* rayon's saved_error: index of the first Err seen, 0 = none
    reordered,      \* TRUE once a worker finished a file before an earlier one
    ccdFiles,       \* ExperimentLoader.ccd_files once new() returned Ok
    outcome,        \* the value read_experiment returns
    \* ---- SpecMerge
    tabA, tabB, tabC,       \* three per-file tables
    mergeAB,                \* a.vstack_mut(b)
    mergeLeft, mergeRight,  \* (a+b)+c and a+(b+c)
    \* ---- SpecImage
    hdul,           \* the HDU list of one file
    image,          \* the payload every Image HDU of the file carries
    imgCall,        \* the last call made on the file
    imgResult,      \* what the call returned
    \* ---- SpecType
    typeInput,      \* the string handed to from_str
    typeCall,       \* the last call made
    typeResult,     \* what it returned
    \* ---- SpecUpdate
    updReadable,    \* whether fs::read_dir(dir) succeeds
    updEntries,     \* the directory listing, in read_dir order
    updNextId,      \* the number the next file written to the directory carries
    updDf,          \* the caller's DataFrame, column by column
    updBefore,      \* the caller's DataFrame as it was when the last call started
    updResult       \* what the last simple_update call returned

dirVars   == <<dirExists, entries, expType, pc, loadSlots, buildSlots, saved, reordered, ccdFiles, outcome>>
mergeVars == <<tabA, tabB, tabC, mergeAB, mergeLeft, mergeRight>>
imageVars == <<hdul, image, imgCall, imgResult>>
typeVars  == <<typeInput, typeCall, typeResult>>
updVars   == <<updReadable, updEntries, updNextId, updDf, updBefore, updResult>>
vars      == <<dirVars, mergeVars, imageVars, typeVars, updVars>>

-----------------------------------------------------------------------------
(* Bounds of the model *)

\* most entries in the directory
MaxFiles == 3
\* most HDUs in a file
MaxHdus == 4
\* most pixels in an image payload
MaxPix == 2
\* longest string handed to from_str
MaxLen == 5

-----------------------------------------------------------------------------
(* Helpers on sequences *)

Range(s) == {s[i] : i \in DOMAIN s}

NoDup(s) == \A i, j \in DOMAIN s : i # j => s[i] # s[j]

RECURSIVE SeqsUpTo(_, _)
SeqsUpTo(S, n) ==
    IF n = 0 THEN {<<>>}
    ELSE LET shorter == SeqsUpTo(S, n - 1)
         IN  shorter \cup {Append(s, x) : s \in {t \in shorter : Len(t) = n - 1}, x \in S}

-----------------------------------------------------------------------------
(* ExperimentType, loader.rs *)

ExperimentTypes == {"Xrr", "Xrs", "Other"}

\* ExperimentType::get_keys of loader.rs
GetKeys(t) ==
    CASE t = "Xrr" -> <<"Sample Theta", "Beamline Energy", "EPU Polarization",
                        "Horizontal Exit Slit Size", "Higher Order Suppressor", "EXPOSURE">>
      [] t = "Xrs" -> <<"Energy">>
      [] t = "Other" -> <<>>


-----------------------------------------------------------------------------
(* Values of the external libraries: Option / Result, polars cells and tables *)

None == [kind |-> "none", v |-> <<>>]
Some(x) == [kind |-> "some", v |-> x]
\* an unwrap() of None, an index out of bounds: the thread panics
Panicked == [kind |-> "panic", v |-> <<>>]

\* one cell of a polars column; every cell carries a sequence of integers
\* (a float scalar is a sequence of one, Q the pair it is computed from)
Cell(x) == [null |-> FALSE, v |-> x]
NullCell == [null |-> TRUE, v |-> <<>>]

\* a polars DataFrame: ordered column names and rows aligned with them
EmptyDF == [cols |-> <<>>, rows |-> <<>>]

Ok(df) == [kind |-> "ok", err |-> "", at |-> 0, df |-> df]
Err(msg, at) == [kind |-> "err", err |-> msg, at |-> at, df |-> EmptyDF]
Panic(at) == [kind |-> "panic", err |-> "panic", at |-> at, df |-> EmptyDF]
Pending == [kind |-> "pending", err |-> "", at |-> 0, df |-> EmptyDF]
Skipped == [kind |-> "skipped", err |-> "", at |-> 0, df |-> EmptyDF]

-----------------------------------------------------------------------------
(* FitsLoader, loader.rs *)

HduKinds == {"Primary", "Image", "Table"}
\* the variants of astrors ImageData the code names, and "Other" for any other variant
Encodings == {"U8", "I16", "I32", "F32", "F64", "Other"}

\* 0-based index of the HDU that FitsLoader::get_image and CcdFits::get_image read
ImageHduIndex == 2

\* header.get_card(card_name): the first card with that keyword
HeaderGetCard(header, card_name) ==
    IF \E i \in DOMAIN header : header[i].keyword = card_name
    THEN LET i == CHOOSE i \in DOMAIN header :
                    /\ header[i].keyword = card_name
                    /\ \A j \in DOMAIN header : header[j].keyword = card_name => i <= j
         IN  Some(<<header[i].value>>)
    ELSE None

\* FitsLoader::get_value for a plain card: hdus[0] must be the Primary HDU
GetCardValue(file, card_name) ==
    IF Len(file.hdus) = 0 THEN Panicked
    ELSE IF file.hdus[1] = "Primary" THEN HeaderGetCard(file.header, card_name)
    ELSE None

\* FitsLoader::get_value: "Q" is computed from two other cards, both unwrapped
GetValue(file, card_name) ==
    IF card_name = "Q"
    THEN LET theta == GetCardValue(file, "Sample Theta")
             en == GetCardValue(file, "Beamline Energy")
         IN  IF theta.kind # "some" \/ en.kind # "some" THEN Panicked
             ELSE Some(theta.v \o en.v)
    ELSE GetCardValue(file, card_name)

\* FitsLoader::get_all_cards
GetAllCards(file) ==
    IF Len(file.hdus) = 0 THEN Panicked
    ELSE IF file.hdus[1] = "Primary" THEN Some(file.header)
    ELSE Some(<<>>)

\* the (Vec<u32>, Vec<u32>) / Series an image call returns, or its failure
ImgOk(data, shape) == [kind |-> "ok", err |-> "", data |-> data, shape |-> shape]
ImgErr(msg) == [kind |-> "err", err |-> msg, data |-> <<>>, shape |-> <<>>]
ImgPanic == [kind |-> "panic", err |-> "panic", data |-> <<>>, shape |-> <<>>]
NoImg == [kind |-> "none", err |-> "", data |-> <<>>, shape |-> <<>>]

\* x as u16 for x: i16 (two's complement reinterpretation), then u32::from
I16AsU16(x) == x % 65536

\* FitsLoader::get_data: only ImageData::I16 is matched; shape[1] needs two axes
LoaderGetData(img) ==
    IF img.enc = "I16"
    THEN IF Len(img.shape) < 2 THEN ImgPanic
         ELSE ImgOk([i \in DOMAIN img.data |-> I16AsU16(img.data[i])],
                    <<img.shape[1], img.shape[2]>>)
    ELSE ImgErr("Unsupported image data type")

\* FitsLoader::get_image: reads hdus[2] and nothing else
LoaderGetImage(hdus, img) ==
    IF Len(hdus) < ImageHduIndex + 1 THEN ImgPanic
    ELSE IF hdus[ImageHduIndex + 1] = "Image" THEN LoaderGetData(img)
    ELSE ImgErr("Image HDU not found")

\* DataFrame::new: column names must be unique (every column here has one row)
DataFrameNew(names, cells) ==
    IF NoDup(names) THEN Ok([cols |-> names, rows |-> <<cells>>])
    ELSE Err("Duplicate", 0)

\* FitsLoader::to_polars: header columns, then the image, then Q
FitsToPolars(file, keys) ==
    LET all == GetAllCards(file)
        present(k) == GetValue(file, k).kind = "some"
        kept == SelectSeq(keys, present)
        names == IF keys = <<>>
                 THEN [i \in DOMAIN all.v |-> all.v[i].keyword]
                 ELSE kept
        cells == IF keys = <<>>
                 THEN [i \in DOMAIN all.v |-> Cell(<<all.v[i].value>>)]
                 ELSE [i \in DOMAIN kept |-> Cell(GetValue(file, kept[i]).v)]
        img == LoaderGetImage(file.hdus, file.img)
        q == GetValue(file, "Q")
    IN  IF Len(file.hdus) = 0 THEN Panic(0)
        ELSE IF img.kind = "panic" THEN Panic(0)
        ELSE IF img.kind = "err" THEN Err(img.err, 0)
        ELSE IF q.kind # "some" THEN Panic(0)
        ELSE DataFrameNew(names \o <<"Raw", "Raw Shape", "Q [A^-1]">>,
                          cells \o <<Cell(img.data), Cell(img.shape), Cell(q.v)>>)

\* FitsLoader::new: fits::fromfile(path)?
FitsLoaderNew(file) ==
    IF file.open THEN Ok(EmptyDF) ELSE Err("fromfile", 0)

-----------------------------------------------------------------------------
(* polars DataFrame::vstack_mut, as called at loader.rs:331 *)

\* widths must agree (an empty frame adopts the other), then the columns are
\* zipped by position and each pair must carry the same name
VStack(a, b) ==
    IF Len(a.cols) # Len(b.cols)
    THEN IF Len(a.cols) = 0 THEN Ok(b) ELSE Err("ShapeMismatch", 0)
    ELSE IF \E i \in DOMAIN a.cols : a.cols[i] # b.cols[i] THEN Err("SchemaMismatch", 0)
    ELSE Ok([cols |-> a.cols, rows |-> a.rows \o b.rows])

\* for mut d in dfs { df.vstack_mut(&mut d)?; }
RECURSIVE FoldVStack(_, _)
FoldVStack(df, rest) ==
    IF rest = <<>> THEN Ok(df)
    ELSE LET r == VStack(df, Head(rest))
         IN  IF r.kind # "ok" THEN r ELSE FoldVStack(r.df, Tail(rest))

\* dfs.pop().ok_or("No data found")? and the loop over what is left
StackAll(dfs) ==
    IF dfs = <<>> THEN Err("No data found", 0)
    ELSE FoldVStack(dfs[Len(dfs)], SubSeq(dfs, 1, Len(dfs) - 1))

\* rayon's collect::<Result<Vec<_>, _>>(): the saved error if there is one, else
\* the items in the order of the input, whatever order they finished in
OkItems(slots, payload) ==
    LET ok(i) == slots[i].kind = "ok"
        idx == SelectSeq([i \in DOMAIN slots |-> i], ok)
    IN  [k \in DOMAIN idx |-> payload[idx[k]]]

\* a collect that hands back what was gathered without looking at the saved error
ParCollectUnchecked(slots, sv, payload) ==
    [kind |-> "ok", at |-> 0, items |-> OkItems(slots, payload)]

ParCollect(slots, sv, payload) ==
    IF sv # 0 THEN [kind |-> "err", at |-> sv, items |-> <<>>]
    ELSE [kind |-> "ok", at |-> 0, items |-> OkItems(slots, payload)]


-----------------------------------------------------------------------------
(* The files a directory may hold *)

FileProfiles == {"good", "unreadable", "noEnergy", "noEPU", "noExposure", "noImage"}
EntryKinds == FileProfiles \cup {"txt"}

\* the header cards of the file at position i; every card carries the value i
HeaderOf(profile, i) ==
    LET missing == CASE profile = "noEnergy" -> {"Beamline Energy"}
                     [] profile = "noEPU" -> {"EPU Polarization"}
                     [] profile = "noExposure" -> {"EXPOSURE"}
                     [] OTHER -> {}
        has(k) == k \notin missing
        ks == SelectSeq(GetKeys("Xrr"), has)
    IN  [n \in DOMAIN ks |-> [keyword |-> ks[n], value |-> i]]

MkFile(profile, i) ==
    [open |-> profile # "unreadable",
     header |-> HeaderOf(profile, i),
     hdus |-> IF profile = "noImage" THEN <<"Primary", "Image", "Table">>
              ELSE <<"Primary", "Table", "Image">>,
     img |-> [enc |-> "I16", shape |-> <<1, 1>>, data |-> <<i>>]]

MkEntry(kind, i) ==
    IF kind = "txt" THEN [ext |-> "txt", file |-> MkFile("unreadable", i)]
    ELSE [ext |-> "fits", file |-> MkFile(kind, i)]

\* what from_str returns: the variant, or the error and the string it carries;
\* keys is filled by get_keys
TypeOk(variant) == [kind |-> "ok", variant |-> variant, err |-> "", arg |-> <<>>, keys |-> <<>>]
TypeErr(msg, arg) == [kind |-> "err", variant |-> "", err |-> msg, arg |-> arg, keys |-> <<>>]
NoType == [kind |-> "none", variant |-> "", err |-> "", arg |-> <<>>, keys |-> <<>>]

\* what the other specifications' variables hold while this one runs
MergeIdle ==
    /\ tabA = EmptyDF /\ tabB = EmptyDF /\ tabC = EmptyDF
    /\ mergeAB = Pending /\ mergeLeft = Pending /\ mergeRight = Pending
ImageIdle ==
    /\ hdul = <<>> /\ image = [enc |-> "I16", shape |-> <<>>, data |-> <<>>]
    /\ imgCall = "none" /\ imgResult = NoImg
TypeIdle ==
    /\ typeInput = <<>> /\ typeCall = "none"
    /\ typeResult = NoType
\* a DataFrame held column by column: cols are the names, data the columns
EmptyFrame == [cols |-> <<>>, data |-> <<>>]
UpdateIdle ==
    /\ updReadable = FALSE /\ updEntries = <<>> /\ updNextId = 1
    /\ updDf = EmptyFrame /\ updBefore = EmptyFrame /\ updResult = Pending
DirIdle ==
    /\ dirExists = FALSE /\ entries = <<>> /\ expType = "Other" /\ pc = "idle"
    /\ loadSlots = <<>> /\ buildSlots = <<>> /\ saved = 0 /\ reordered = FALSE
    /\ ccdFiles = <<>> /\ outcome = Pending

-----------------------------------------------------------------------------
(* Spec: read_experiment = ExperimentLoader::new(dir, exp)?.to_polars()? *)

\* the .filter(extension == Some("fits")) of ExperimentLoader::new
IsFits(entry) == entry.ext = "fits"
Candidates(es) ==
    LET c == SelectSeq(es, IsFits) IN [i \in DOMAIN c |-> c[i].file]

Init ==
    /\ dirExists \in BOOLEAN
    /\ \E kinds \in SeqsUpTo(EntryKinds, MaxFiles) :
          entries = IF dirExists THEN [i \in DOMAIN kinds |-> MkEntry(kinds[i], i)] ELSE <<>>
    /\ expType \in ExperimentTypes
    /\ pc = "start"
    /\ loadSlots = <<>> /\ buildSlots = <<>> /\ saved = 0 /\ reordered = FALSE
    /\ ccdFiles = <<>> /\ outcome = Pending
    /\ MergeIdle /\ ImageIdle /\ TypeIdle /\ UpdateIdle

\* fs::read_dir(dir)? and the filter; the par_iter over the candidates starts
ReadDir ==
    /\ pc = "start"
    /\ IF dirExists
       THEN /\ pc' = "loading"
            /\ loadSlots' = [i \in DOMAIN Candidates(entries) |-> Pending]
            /\ outcome' = outcome
       ELSE /\ pc' = "done"
            /\ loadSlots' = loadSlots
            /\ outcome' = Err("read_dir", 0)
    /\ UNCHANGED <<dirExists, entries, expType, buildSlots, saved, reordered, ccdFiles>>
    /\ UNCHANGED <<mergeVars, imageVars, typeVars, updVars>>

\* a rayon worker runs FitsLoader::new on candidate i
LoadFile(i) ==
    /\ pc = "loading"
    /\ loadSlots[i].kind = "pending"
    /\ LET r == FitsLoaderNew(Candidates(entries)[i])
       IN  /\ loadSlots' = [loadSlots EXCEPT ![i] = r]
           /\ saved' = IF r.kind = "err" /\ saved = 0 THEN i ELSE saved
    /\ reordered' = (reordered \/ \E j \in 1..(i - 1) : loadSlots[j].kind = "pending")
    /\ UNCHANGED <<dirExists, entries, expType, pc, buildSlots, ccdFiles, outcome>>
    /\ UNCHANGED <<mergeVars, imageVars, typeVars, updVars>>

\* once an Err is saved, while_some stops the workers: candidate i is never run
SkipLoad(i) ==
    /\ pc = "loading"
    /\ loadSlots[i].kind = "pending"
    /\ saved # 0
    /\ loadSlots' = [loadSlots EXCEPT ![i] = Skipped]
    /\ UNCHANGED <<dirExists, entries, expType, pc, buildSlots, saved, reordered, ccdFiles, outcome>>
    /\ UNCHANGED <<mergeVars, imageVars, typeVars, updVars>>

\* the collect of ExperimentLoader::new returns; on Ok, to_polars starts its par_iter
FinishNew ==
    /\ pc = "loading"
    /\ \A i \in DOMAIN loadSlots : loadSlots[i].kind # "pending"
    /\ LET r == ParCollect(loadSlots, saved, Candidates(entries))
       IN  IF r.kind = "err"
           THEN /\ pc' = "done"
                /\ outcome' = Err(loadSlots[r.at].err, r.at)
                /\ UNCHANGED <<ccdFiles, buildSlots, saved>>
           ELSE /\ pc' = "converting"
                /\ ccdFiles' = r.items
                /\ buildSlots' = [i \in DOMAIN r.items |-> Pending]
                /\ saved' = 0
                /\ outcome' = outcome
    /\ UNCHANGED <<dirExists, entries, expType, loadSlots, reordered>>
    /\ UNCHANGED <<mergeVars, imageVars, typeVars, updVars>>

\* a rayon worker runs ccd.to_polars(&keys) on loaded file i
BuildRow(i) ==
    /\ pc = "converting"
    /\ buildSlots[i].kind = "pending"
    /\ LET r == FitsToPolars(ccdFiles[i], GetKeys(expType))
       IN  /\ buildSlots' = [buildSlots EXCEPT ![i] = r]
           /\ saved' = IF r.kind = "err" /\ saved = 0 THEN i ELSE saved
    /\ reordered' = (reordered \/ \E j \in 1..(i - 1) : buildSlots[j].kind = "pending")
    /\ UNCHANGED <<dirExists, entries, expType, pc, loadSlots, ccdFiles, outcome>>
    /\ UNCHANGED <<mergeVars, imageVars, typeVars, updVars>>

\* after a saved Err or a panic the pool may drop the jobs not yet started
SkipBuild(i) ==
    /\ pc = "converting"
    /\ buildSlots[i].kind = "pending"
    /\ \/ saved # 0
       \/ \E j \in DOMAIN buildSlots : buildSlots[j].kind = "panic"
    /\ buildSlots' = [buildSlots EXCEPT ![i] = Skipped]
    /\ UNCHANGED <<dirExists, entries, expType, pc, loadSlots, saved, reordered, ccdFiles, outcome>>
    /\ UNCHANGED <<mergeVars, imageVars, typeVars, updVars>>

\* the par_iter of to_polars is over: a worker's panic resumes in the caller,
\* else the collected Result is matched and the tables are stacked
FinishToPolars ==
    /\ pc = "converting"
    /\ \A i \in DOMAIN buildSlots : buildSlots[i].kind # "pending"
    /\ pc' = "done"
    /\ LET r == ParCollect(buildSlots, saved, [i \in DOMAIN buildSlots |-> buildSlots[i].df])
           p == {i \in DOMAIN buildSlots : buildSlots[i].kind = "panic"}
       IN  outcome' = IF p # {} THEN Panic(CHOOSE i \in p : \A j \in p : i <= j)
                      ELSE IF r.kind = "err" THEN Err(buildSlots[r.at].err, r.at)
                      ELSE StackAll(r.items)
    /\ UNCHANGED <<dirExists, entries, expType, loadSlots, buildSlots, saved, reordered, ccdFiles>>
    /\ UNCHANGED <<mergeVars, imageVars, typeVars, updVars>>

Next ==
    \/ ReadDir
    \/ \E i \in DOMAIN loadSlots : LoadFile(i)
    \/ \E i \in DOMAIN loadSlots : SkipLoad(i)
    \/ FinishNew
    \/ \E i \in DOMAIN buildSlots : BuildRow(i)
    \/ \E i \in DOMAIN buildSlots : SkipBuild(i)
    \/ FinishToPolars

Spec == Init /\ [][Next]_vars


-----------------------------------------------------------------------------
(* Properties of directory ingestion, checked under Spec *)

HasCol(df, name) == \E i \in DOMAIN df.cols : df.cols[i] = name

\* the rows of a table as a multiset
RowBag(df) == [r \in Range(df.rows) |-> Cardinality({i \in DOMAIN df.rows : df.rows[i] = r})]

HasCard(file, name) == \E i \in DOMAIN file.header : file.header[i].keyword = name

\* the candidate .fits files of the directory and the ones that fail on their own:
\* the file cannot be opened, or its row cannot be built
NumCandidates == Len(Candidates(entries))
FileFails(file) ==
    \/ FitsLoaderNew(file).kind # "ok"
    \/ FitsToPolars(file, GetKeys(expType)).kind # "ok"
Failing == {i \in DOMAIN Candidates(entries) : FileFails(Candidates(entries)[i])}

\* C1: failure isolation. With N candidate files of which K fail, read_experiment
\* returns a table of exactly N-K rows when K < N, and fails when K = N.
C1_FailureIsolation ==
    (pc = "done" /\ dirExists /\ NumCandidates > 0) =>
        IF Cardinality(Failing) < NumCandidates
        THEN /\ outcome.kind = "ok"
             /\ Len(outcome.df.rows) = NumCandidates - Cardinality(Failing)
        ELSE outcome.kind # "ok"

\* C4: a requested field absent from a file's header makes building that file's row
\* an error value (no panic, no row that silently lacks the column); and with three
\* .fits files of which exactly one lacks "Beamline Energy", type xrr, the result
\* has two rows.
C4_MissingHeaderField ==
    /\ \A i \in DOMAIN buildSlots :
          ( /\ buildSlots[i].kind \notin {"pending", "skipped"}
            /\ \E k \in Range(GetKeys(expType)) : ~HasCard(ccdFiles[i], k) )
          => buildSlots[i].kind = "err"
    /\ ( /\ pc = "done" /\ expType = "Xrr" /\ NumCandidates = 3
         /\ \E i \in 1..3 :
              /\ Candidates(entries)[i] = MkFile("noEnergy", Candidates(entries)[i].img.data[1])
              /\ \A j \in (1..3) \ {i} :
                    Candidates(entries)[j] = MkFile("good", Candidates(entries)[j].img.data[1]) )
       => (outcome.kind = "ok" /\ Len(outcome.df.rows) = 2)

\* C5: read_experiment returns an error (no panic, no table) exactly when the
\* directory is absent, holds no .fits file, or every candidate fails; in every
\* other case it returns a table.
C5_BatchFatal ==
    pc = "done" =>
        LET fatal == \/ ~dirExists
                     \/ NumCandidates = 0
                     \/ Cardinality(Failing) = NumCandidates
        IN  IF fatal THEN outcome.kind = "err" ELSE outcome.kind = "ok"

\* C9: Q is appended if and only if both the angle and the energy column are
\* present; a file without one of them is still converted, without a Q column and
\* without a failure.
C9_DerivedQ ==
    /\ \A i \in DOMAIN buildSlots :
          ( /\ buildSlots[i].kind \notin {"pending", "skipped"}
            /\ LoaderGetImage(ccdFiles[i].hdus, ccdFiles[i].img).kind = "ok"
            /\ ~(HasCard(ccdFiles[i], "Sample Theta") /\ HasCard(ccdFiles[i], "Beamline Energy")) )
          => (buildSlots[i].kind = "ok" /\ ~HasCol(buildSlots[i].df, "Q [A^-1]"))
    /\ (pc = "done" /\ outcome.kind = "ok")
       => (HasCol(outcome.df, "Q [A^-1]")
             <=> (HasCol(outcome.df, "Sample Theta") /\ HasCol(outcome.df, "Beamline Energy")))

\* what the file list alone determines, whatever the schedule of the workers
PerFile == [i \in DOMAIN Candidates(entries) |->
                FitsToPolars(Candidates(entries)[i], GetKeys(expType))]
ExpectedOk ==
    /\ dirExists
    /\ NumCandidates > 0
    /\ \A i \in DOMAIN PerFile : Candidates(entries)[i].open /\ PerFile[i].kind = "ok"
    /\ \A i, j \in DOMAIN PerFile : PerFile[i].df.cols = PerFile[j].df.cols
ExpectedRows == [i \in DOMAIN PerFile |-> PerFile[i].df.rows[1]]

\* C10: for a fixed list of files, every interleaving and completion order of the
\* workers ends with the same success or failure, and on success with the same
\* column order and the same multiset of rows.
C10_SchedulingIndependence ==
    pc = "done" =>
        /\ (outcome.kind = "ok") <=> ExpectedOk
        /\ outcome.kind = "ok" =>
              /\ outcome.df.cols = PerFile[NumCandidates].df.cols
              /\ RowBag(outcome.df) = RowBag([cols |-> <<>>, rows |-> ExpectedRows])

\* a run of two or more files that succeeded although a worker finished out of order
C10_Witness ==
    /\ pc = "done" /\ outcome.kind = "ok"
    /\ reordered
    /\ Len(outcome.df.rows) >= 2


-----------------------------------------------------------------------------
(* SpecMerge: the merge step of ExperimentLoader::to_polars on per-file tables *)

\* the profiles whose file loads and whose row is built under experiment type t
Convertible(t) ==
    {p \in FileProfiles : /\ FitsLoaderNew(MkFile(p, 1)).kind = "ok"
                          /\ FitsToPolars(MkFile(p, 1), GetKeys(t)).kind = "ok"}

InitMerge ==
    /\ \E t \in ExperimentTypes : \E pa, pb, pcc \in Convertible(t) :
          /\ tabA = FitsToPolars(MkFile(pa, 1), GetKeys(t)).df
          /\ tabB = FitsToPolars(MkFile(pb, 2), GetKeys(t)).df
          /\ tabC = FitsToPolars(MkFile(pcc, 3), GetKeys(t)).df
    /\ mergeAB = Pending /\ mergeLeft = Pending /\ mergeRight = Pending
    /\ DirIdle /\ ImageIdle /\ TypeIdle /\ UpdateIdle

\* a.vstack_mut(&mut b)
MergeTwo ==
    /\ mergeAB.kind = "pending"
    /\ mergeAB' = VStack(tabA, tabB)
    /\ UNCHANGED <<tabA, tabB, tabC, mergeLeft, mergeRight>>
    /\ UNCHANGED <<dirVars, imageVars, typeVars, updVars>>

\* a.vstack_mut(&mut b)?.vstack_mut(&mut c)
MergeLeftFirst ==
    /\ mergeLeft.kind = "pending"
    /\ mergeLeft' = LET ab == VStack(tabA, tabB)
                    IN  IF ab.kind # "ok" THEN ab ELSE VStack(ab.df, tabC)
    /\ UNCHANGED <<tabA, tabB, tabC, mergeAB, mergeRight>>
    /\ UNCHANGED <<dirVars, imageVars, typeVars, updVars>>

\* b.vstack_mut(&mut c)?; a.vstack_mut(&mut b)
MergeRightFirst ==
    /\ mergeRight.kind = "pending"
    /\ mergeRight' = LET bc == VStack(tabB, tabC)
                     IN  IF bc.kind # "ok" THEN bc ELSE VStack(tabA, bc.df)
    /\ UNCHANGED <<tabA, tabB, tabC, mergeAB, mergeLeft>>
    /\ UNCHANGED <<dirVars, imageVars, typeVars, updVars>>

NextMerge == MergeTwo \/ MergeLeftFirst \/ MergeRightFirst

SpecMerge == InitMerge /\ [][NextMerge]_vars

\* the cell of row r of df in the column called name
CellAt(df, r, name) ==
    df.rows[r][CHOOSE i \in DOMAIN df.cols : df.cols[i] = name]

\* row r of src appears in df: its own cells kept, a null in every other column
RowKept(df, src, r) ==
    \E q \in DOMAIN df.rows :
        \A name \in Range(df.cols) :
            CellAt(df, q, name) = IF HasCol(src, name) THEN CellAt(src, r, name) ELSE NullCell

\* C2: merging two per-file tables succeeds whatever their column sets, the result's
\* column set is the union of theirs, every row is kept, and a row has a null in
\* each column its source table did not have.
C2_UnionInvariant ==
    mergeAB.kind # "pending" =>
        /\ mergeAB.kind = "ok"
        /\ Range(mergeAB.df.cols) = Range(tabA.cols) \cup Range(tabB.cols)
        /\ Len(mergeAB.df.rows) = Len(tabA.rows) + Len(tabB.rows)
        /\ \A r \in DOMAIN tabA.rows : RowKept(mergeAB.df, tabA, r)
        /\ \A r \in DOMAIN tabB.rows : RowKept(mergeAB.df, tabB, r)

\* the rows of a table as a multiset of name -> cell maps, column order put aside
RowMapBag(df) ==
    LET asMap(r) == [name \in Range(df.cols) |-> CellAt(df, r, name)]
        maps == {asMap(r) : r \in DOMAIN df.rows}
    IN  [m \in maps |-> Cardinality({r \in DOMAIN df.rows : asMap(r) = m})]

\* C3: for three single-row tables with differing column sets, (a+b)+c and a+(b+c)
\* both succeed and agree on the column set and on the rows as a multiset.
C3_Associativity ==
    ( /\ mergeLeft.kind # "pending" /\ mergeRight.kind # "pending"
      /\ ~(Range(tabA.cols) = Range(tabB.cols) /\ Range(tabB.cols) = Range(tabC.cols)) )
    => /\ mergeLeft.kind = "ok" /\ mergeRight.kind = "ok"
       /\ Range(mergeLeft.df.cols) = Range(mergeRight.df.cols)
       /\ RowMapBag(mergeLeft.df) = RowMapBag(mergeRight.df)


-----------------------------------------------------------------------------
(* CcdFits, lib.rs *)

\* x as u16: integers are truncated to their low 16 bits, floats saturate
AsU16(enc, x) ==
    IF enc \in {"F32", "F64"}
    THEN (IF x < 0 THEN 0 ELSE IF x > 65535 THEN 65535 ELSE x)
    ELSE x % 65536

\* CcdFits::package_polars_list: into_dimensionality::<Ix2>() or panic
PackagePolarsList(data, shape) ==
    IF Len(shape) # 2 THEN ImgPanic ELSE ImgOk(data, shape)

\* CcdFits::get_data: five encodings are cast to u16, any other variant panics
CcdGetData(img) ==
    IF img.enc \in {"U8", "I16", "I32", "F32", "F64"}
    THEN PackagePolarsList([i \in DOMAIN img.data |-> AsU16(img.enc, img.data[i])], img.shape)
    ELSE ImgPanic

\* CcdFits::get_image: reads hdus[2]; anything but an Image HDU panics
CcdGetImage(hdus, img) ==
    IF Len(hdus) < ImageHduIndex + 1 THEN ImgPanic
    ELSE IF hdus[ImageHduIndex + 1] = "Image" THEN CcdGetData(img)
    ELSE ImgPanic

-----------------------------------------------------------------------------
(* SpecImage: the image calls on one decoded file *)

\* the logical pixel values tried, and the ones each encoding can store
PixelValues == {-1, 0, 255, 32767, 65536}
Storable(enc) ==
    CASE enc = "U8" -> {x \in PixelValues : 0 <= x /\ x <= 255}
      [] enc = "I16" -> {x \in PixelValues : -32768 <= x /\ x <= 32767}
      [] enc = "Other" -> {}
      [] OTHER -> PixelValues

\* fits::fromfile puts the primary HDU first
HduLists == {h \in SeqsUpTo(HduKinds, MaxHdus) : Len(h) >= 1 /\ h[1] = "Primary"}

\* a payload of one row of pixels, as a 2-D array or (malformed for a CCD frame) 1-D
Images ==
    {[enc |-> e, shape |-> sh, data |-> d] :
        e \in Encodings, d \in SeqsUpTo(PixelValues, MaxPix), sh \in {<<0>>, <<1, 0>>}}
ValidImage(img) ==
    /\ \A i \in DOMAIN img.data : img.data[i] \in Storable(img.enc)
    /\ img.enc # "Other" => Len(img.data) >= 1
    /\ img.shape[Len(img.shape)] = 0

InitImage ==
    /\ hdul \in HduLists
    /\ \E img \in {m \in Images : ValidImage(m)} :
          image = [img EXCEPT !.shape[Len(img.shape)] = Len(img.data)]
    /\ imgCall = "none" /\ imgResult = NoImg
    /\ DirIdle /\ MergeIdle /\ TypeIdle /\ UpdateIdle

LoaderGetImageCall ==
    /\ imgCall = "none"
    /\ imgCall' = "FitsLoader::get_image"
    /\ imgResult' = LoaderGetImage(hdul, image)
    /\ UNCHANGED <<hdul, image, dirVars, mergeVars, typeVars, updVars>>

LoaderGetDataCall ==
    /\ imgCall = "none"
    /\ imgCall' = "FitsLoader::get_data"
    /\ imgResult' = LoaderGetData(image)
    /\ UNCHANGED <<hdul, image, dirVars, mergeVars, typeVars, updVars>>

CcdGetImageCall ==
    /\ imgCall = "none"
    /\ imgCall' = "CcdFits::get_image"
    /\ imgResult' = CcdGetImage(hdul, image)
    /\ UNCHANGED <<hdul, image, dirVars, mergeVars, typeVars, updVars>>

CcdGetDataCall ==
    /\ imgCall = "none"
    /\ imgCall' = "CcdFits::get_data"
    /\ imgResult' = CcdGetData(image)
    /\ UNCHANGED <<hdul, image, dirVars, mergeVars, typeVars, updVars>>

NextImage == LoaderGetImageCall \/ LoaderGetDataCall \/ CcdGetImageCall \/ CcdGetDataCall

SpecImage == InitImage /\ [][NextImage]_vars

ImageAt(h, p) == p + 1 \in DOMAIN h /\ h[p + 1] = "Image"

\* the payload is one get_data takes: a supported encoding, two axes
Decodable ==
    /\ Len(image.shape) = 2
    /\ image.enc = "I16"

\* C6: get_image looks at the canonical HDU position, then at a next candidate
\* position, and fails with the missing-image error only when neither holds an
\* image; on every HDU list it returns an image or that error and never panics.
C6_ImagePositionPolicy ==
    (imgCall \in {"FitsLoader::get_image", "CcdFits::get_image"} /\ Decodable) =>
        /\ imgResult.kind \in {"ok", "err"}
        /\ ImageAt(hdul, ImageHduIndex) => imgResult.kind = "ok"
        /\ (\A p \in 0..(MaxHdus - 1) : ~ImageAt(hdul, p))
              => (imgResult.kind = "err" /\ imgResult.err = "Image HDU not found")
        /\ \E next \in (0..(MaxHdus - 1)) \ {ImageHduIndex} :
              ~ImageAt(hdul, ImageHduIndex) =>
                  IF ImageAt(hdul, next) THEN imgResult.kind = "ok"
                  ELSE (imgResult.kind = "err" /\ imgResult.err = "Image HDU not found")

\* C7: get_data accepts every 8/16/32-bit integer and 32/64-bit float payload and
\* returns the logical values unchanged (so equal values decode equally whatever
\* the encoding); any other encoding is an unsupported-encoding error.
C7_NumericWidening ==
    (imgCall \in {"FitsLoader::get_data", "CcdFits::get_data"} /\ Len(image.shape) = 2) =>
        IF image.enc \in {"U8", "I16", "I32", "F32", "F64"}
        THEN imgResult.kind = "ok" /\ imgResult.data = image.data
        ELSE imgResult.kind = "err" /\ imgResult.err = "Unsupported image data type"


-----------------------------------------------------------------------------
(* ExperimentType::from_str and get_keys, loader.rs and enums.rs *)

\* char::to_lowercase on the letters used here
LowerOf(c) ==
    CASE c = "X" -> "x" [] c = "R" -> "r" [] c = "S" -> "s" [] c = "O" -> "o"
      [] c = "T" -> "t" [] c = "H" -> "h" [] c = "E" -> "e" [] c = "Z" -> "z"
      [] OTHER -> c

\* str::to_lowercase
ToLowercase(str) == [i \in DOMAIN str |-> LowerOf(str[i])]

\* the match on the lower-cased string, shared by both from_str
MatchVariant(lowered) ==
    CASE lowered = <<"x", "r", "r">> -> "Xrr"
      [] lowered = <<"x", "r", "s">> -> "Xrs"
      [] lowered = <<"o", "t", "h", "e", "r">> -> "Other"
      [] OTHER -> ""

\* from_str that matches exp_type as written, without to_lowercase()
FromStrCaseSensitive(exp_type) ==
    IF MatchVariant(exp_type) # "" THEN TypeOk(MatchVariant(exp_type))
    ELSE TypeErr("Invalid experiment type", <<>>)

\* ExperimentType::from_str of loader.rs
FromStr(exp_type) ==
    IF MatchVariant(ToLowercase(exp_type)) # ""
    THEN TypeOk(MatchVariant(ToLowercase(exp_type)))
    ELSE TypeErr("Invalid experiment type", <<>>)

\* ExperimentType::from_str of enums.rs: the error carries the string as given
EnumsFromStr(exp_type) ==
    IF MatchVariant(ToLowercase(exp_type)) # ""
    THEN TypeOk(MatchVariant(ToLowercase(exp_type)))
    ELSE TypeErr("InvalidExperimentType", exp_type)

\* ExperimentType::get_keys of enums.rs, as HeaderValue variants
EnumsGetKeys(t) ==
    CASE t = "Xrr" -> <<"SampleTheta", "CCDTheta", "BeamlineEnergy", "BeamCurrent",
                        "EPUPolarization", "HorizontalExitSlitSize",
                        "HigherOrderSuppressor", "Exposure">>
      [] t = "Xrs" -> <<"BeamlineEnergy">>
      [] t = "Other" -> <<>>

\* the strings tried: at each position a letter one of the three names has there,
\* in either case, or a letter none of them has
Names == {<<"x", "r", "r">>, <<"x", "r", "s">>, <<"o", "t", "h", "e", "r">>}
UpperOf(c) == CHOOSE u \in {"X", "R", "S", "O", "T", "H", "E"} : LowerOf(u) = c
CharsAt(i) ==
    LET lows == {n[i] : n \in {m \in Names : Len(m) >= i}}
    IN  lows \cup {UpperOf(c) : c \in lows} \cup {"z"}
RECURSIVE InputsOfLen(_)
InputsOfLen(n) ==
    IF n = 0 THEN {<<>>}
    ELSE {Append(str, c) : str \in InputsOfLen(n - 1), c \in CharsAt(n)}
Inputs == UNION {InputsOfLen(n) : n \in 0..MaxLen}

InitType ==
    /\ typeInput \in Inputs
    /\ typeCall = "none"
    /\ typeResult = NoType
    /\ DirIdle /\ MergeIdle /\ ImageIdle /\ UpdateIdle

LoaderFromStrCall ==
    /\ typeCall = "none"
    /\ typeCall' = "loader::from_str"
    /\ typeResult' = FromStr(typeInput)
    /\ UNCHANGED <<typeInput, dirVars, mergeVars, imageVars, updVars>>

EnumsFromStrCall ==
    /\ typeCall = "none"
    /\ typeCall' = "enums::from_str"
    /\ typeResult' = EnumsFromStr(typeInput)
    /\ UNCHANGED <<typeInput, dirVars, mergeVars, imageVars, updVars>>

\* get_keys on the variant from_str returned
LoaderGetKeysCall ==
    /\ typeCall = "loader::from_str" /\ typeResult.kind = "ok"
    /\ typeCall' = "loader::get_keys"
    /\ typeResult' = [typeResult EXCEPT !.keys = GetKeys(typeResult.variant)]
    /\ UNCHANGED <<typeInput, dirVars, mergeVars, imageVars, updVars>>

EnumsGetKeysCall ==
    /\ typeCall = "enums::from_str" /\ typeResult.kind = "ok"
    /\ typeCall' = "enums::get_keys"
    /\ typeResult' = [typeResult EXCEPT !.keys = EnumsGetKeys(typeResult.variant)]
    /\ UNCHANGED <<typeInput, dirVars, mergeVars, imageVars, updVars>>

NextType == LoaderFromStrCall \/ EnumsFromStrCall \/ LoaderGetKeysCall \/ EnumsGetKeysCall

SpecType == InitType /\ [][NextType]_vars

\* str spells the lower-case word w in some mix of cases
Spells(str, w) ==
    /\ Len(str) = Len(w)
    /\ \A i \in DOMAIN w :
          str[i] \in CASE w[i] = "x" -> {"x", "X"} [] w[i] = "r" -> {"r", "R"}
                       [] w[i] = "s" -> {"s", "S"} [] w[i] = "o" -> {"o", "O"}
                       [] w[i] = "t" -> {"t", "T"} [] w[i] = "h" -> {"h", "H"}
                       [] w[i] = "e" -> {"e", "E"}

\* C8: from_str returns Xrr, Xrs or Other exactly for the strings that spell "xrr",
\* "xrs" or "other" in any case, and the invalid-experiment-type error for every
\* other string; get_keys returns a list without duplicates for each variant, and
\* the empty list for Other.
C8_ExperimentTypeCatalog ==
    /\ typeCall \in {"loader::from_str", "enums::from_str"} =>
          /\ (typeResult.kind = "ok" /\ typeResult.variant = "Xrr")
                <=> Spells(typeInput, <<"x", "r", "r">>)
          /\ (typeResult.kind = "ok" /\ typeResult.variant = "Xrs")
                <=> Spells(typeInput, <<"x", "r", "s">>)
          /\ (typeResult.kind = "ok" /\ typeResult.variant = "Other")
                <=> Spells(typeInput, <<"o", "t", "h", "e", "r">>)
          /\ (typeResult.kind = "err"
                /\ typeResult.err \in {"Invalid experiment type", "InvalidExperimentType"})
                <=> \A w \in Names : ~Spells(typeInput, w)
          /\ typeResult.kind \in {"ok", "err"}
    /\ typeCall \in {"loader::get_keys", "enums::get_keys"} =>
          /\ typeResult.variant \in ExperimentTypes
          /\ NoDup(typeResult.keys)
          /\ typeResult.variant = "Other" <=> typeResult.keys = <<>>

\* a mixed-case spelling was parsed and its keys resolved
C8_Witness ==
    /\ typeCall = "loader::get_keys"
    /\ typeInput = <<"X", "r", "R">>
    /\ typeResult.variant = "Xrr"
    /\ Len(typeResult.keys) = 6

-----------------------------------------------------------------------------
(* SpecUpdate: simple_update(df, dir), loader.rs:363-390 *)

\* a table built row by row, as a frame held column by column
ToFrame(t) ==
    [cols |-> t.cols,
     data |-> [c \in DOMAIN t.cols |-> [r \in DOMAIN t.rows |-> t.rows[r][c]]]]

\* df.height(): the length of the first column, 0 for a frame without columns
Height(f) == IF f.data = <<>> THEN 0 ELSE Len(f.data[1])

\* df.vstack_mut(&mut new_df) on the caller's frame. polars checks the widths
\* first (a frame without columns adopts the other); then it walks the column
\* pairs in order, checking the names of a pair and extending the left column
\* before it looks at the next pair, and returns at the first pair that differs
VStackMut(f, other) ==
    LET bad == {i \in DOMAIN f.cols : f.cols[i] # other.cols[i]}
        stop == IF bad = {} THEN Len(f.cols) + 1
                ELSE CHOOSE i \in bad : \A j \in bad : i <= j
        walked == [cols |-> f.cols,
                   data |-> [c \in DOMAIN f.data |->
                               IF c < stop THEN f.data[c] \o other.data[c] ELSE f.data[c]]]
    IN  IF Len(f.cols) # Len(other.cols)
        THEN IF Len(f.cols) = 0 THEN [res |-> Ok(EmptyDF), df |-> other]
             ELSE [res |-> Err("ShapeMismatch", 0), df |-> f]
        ELSE IF bad # {} THEN [res |-> Err("SchemaMismatch", 0), df |-> walked]
        ELSE [res |-> Ok(EmptyDF), df |-> walked]

\* ccd_files.len() as isize - df.height() as isize
NotLoaded(es, f) == Len(Candidates(es)) - Height(f)

\* ccd_files[..not_loaded as usize]
Sliced(es, f) == SubSeq(Candidates(es), 1, NotLoaded(es, f))

\* every pair (value returned, caller's frame afterwards) a call can end with;
\* more than one only when several files fail, rayon keeping whichever error
\* it saw first
SimpleUpdateOutcomes(readable, es, f) ==
    LET files == Sliced(es, f)
        loads == [i \in DOMAIN files |-> FitsLoaderNew(files[i])]
        built == [i \in DOMAIN files |-> FitsToPolars(files[i], GetKeys("Xrr"))]
        noLoad == {i \in DOMAIN files : loads[i].kind # "ok"}
        noBuild == {i \in DOMAIN files : built[i].kind # "ok"}
        newDf == StackAll([i \in DOMAIN files |-> built[i].df])
    IN  IF ~readable THEN {[res |-> Err("read_dir", 0), df |-> f]}
        ELSE IF NotLoaded(es, f) = 0 THEN {[res |-> Ok(EmptyDF), df |-> f]}
        ELSE IF NotLoaded(es, f) < 0
        THEN {[res |-> Err("Files out of sync with loaded data, Restart", 0), df |-> f]}
        ELSE IF noLoad # {} THEN {[res |-> Err(loads[i].err, i), df |-> f] : i \in noLoad}
        ELSE IF noBuild # {}
        THEN {[res |-> [built[i] EXCEPT !.at = i], df |-> f] : i \in noBuild}
        ELSE IF newDf.kind # "ok" THEN {[res |-> newDf, df |-> f]}
        ELSE {VStackMut(f, ToFrame(newDf.df))}

\* the table read_experiment(dir, t) returns for a listing, Err or Panic if
\* it does not return one (the workers' order does not change which)
ReadExperiment(es, t) ==
    LET files == Candidates(es)
        built == [i \in DOMAIN files |-> FitsToPolars(files[i], GetKeys(t))]
    IN  IF \E i \in DOMAIN files : FitsLoaderNew(files[i]).kind # "ok" THEN Err("fromfile", 0)
        ELSE IF \E i \in DOMAIN files : built[i].kind # "ok" THEN Err("to_polars", 0)
        ELSE StackAll([i \in DOMAIN files |-> built[i].df])

\* the caller starts with the table read from the directory, or with an empty
\* frame when the directory holds no .fits file yet
InitUpdate ==
    /\ updReadable = TRUE
    /\ \E kinds \in SeqsUpTo(EntryKinds, MaxFiles), t \in ExperimentTypes :
          LET es == [i \in DOMAIN kinds |-> MkEntry(kinds[i], i)]
              read == ReadExperiment(es, t)
          IN  /\ updEntries = es
              /\ updNextId = Len(kinds) + 1
              /\ IF Candidates(es) = <<>> THEN updDf = EmptyFrame
                 ELSE read.kind = "ok" /\ updDf = ToFrame(read.df)
    /\ updBefore = EmptyFrame
    /\ updResult = Pending
    /\ DirIdle /\ MergeIdle /\ ImageIdle /\ TypeIdle

\* a new entry shows up in the directory; read_dir promises no order, so it may
\* be listed anywhere among the others
NewFile(kind, pos) ==
    /\ updReadable
    /\ updNextId <= MaxFiles
    /\ pos \in 0..Len(updEntries)
    /\ updEntries' = SubSeq(updEntries, 1, pos) \o <<MkEntry(kind, updNextId)>>
                       \o SubSeq(updEntries, pos + 1, Len(updEntries))
    /\ updNextId' = updNextId + 1
    /\ updResult' = Pending
    /\ UNCHANGED <<updReadable, updDf, updBefore, dirVars, mergeVars, imageVars, typeVars>>

\* an entry is deleted from the directory
RemoveFile(i) ==
    /\ updReadable
    /\ i \in DOMAIN updEntries
    /\ updEntries' = SubSeq(updEntries, 1, i - 1) \o SubSeq(updEntries, i + 1, Len(updEntries))
    /\ updResult' = Pending
    /\ UNCHANGED <<updReadable, updNextId, updDf, updBefore, dirVars, mergeVars, imageVars, typeVars>>

\* the directory itself goes away: fs::read_dir(dir)? fails from now on
RemoveDir ==
    /\ updReadable
    /\ updReadable' = FALSE
    /\ updEntries' = <<>>
    /\ updResult' = Pending
    /\ UNCHANGED <<updNextId, updDf, updBefore, dirVars, mergeVars, imageVars, typeVars>>

\* one call simple_update(&mut df, dir), start to return
SimpleUpdate ==
    /\ \E o \in SimpleUpdateOutcomes(updReadable, updEntries, updDf) :
          /\ updResult' = o.res
          /\ updDf' = o.df
    /\ updBefore' = updDf
    /\ UNCHANGED <<updReadable, updEntries, updNextId, dirVars, mergeVars, imageVars, typeVars>>

NextUpdate ==
    \/ \E kind \in EntryKinds, pos \in 0..MaxFiles : NewFile(kind, pos)
    \/ \E i \in 1..MaxFiles : RemoveFile(i)
    \/ RemoveDir
    \/ SimpleUpdate

SpecUpdate == InitUpdate /\ [][NextUpdate]_vars

\* the number each .fits file of the directory carries (its pixel and its cards)
FileIds == {updEntries[i].file.img.data[1] : i \in {j \in DOMAIN updEntries : IsFits(updEntries[j])}}

\* every column of the frame has the same length
Rectangular(f) == \A c \in DOMAIN f.data : Len(f.data[c]) = Height(f)

\* the file each row of the frame was read from, taken from its "Raw" cell
RowIds(f) ==
    IF \E c \in DOMAIN f.cols : f.cols[c] = "Raw"
    THEN LET raw == f.data[CHOOSE c \in DOMAIN f.cols : f.cols[c] = "Raw"]
         IN  [r \in DOMAIN raw |-> raw[r].v[1]]
    ELSE <<>>

\* the frame holds at most one row per .fits file of the directory and no other row
Represented(f) ==
    /\ Rectangular(f) /\ Len(RowIds(f)) = Height(f)
    /\ NoDup(RowIds(f)) /\ Range(RowIds(f)) \subseteq FileIds

\* the frame holds exactly one row per .fits file of the directory
OnePerFile(f) == Represented(f) /\ Range(RowIds(f)) = FileIds

\* C11: when simple_update returns Ok on a table that held one row for each of
\* the files present before the new ones appeared (and no other row), the table
\* holds exactly one row per .fits file of the directory afterwards: the new
\* files were appended, none twice, none left out.
C11_AppendsNewFiles ==
    (updResult.kind = "ok" /\ Represented(updBefore)) => OnePerFile(updDf)

\* C12: a call made with as many .fits files as rows returns Ok and leaves the
\* table as it was; with fewer files than rows it returns the out-of-sync
\* error; a call that returns an error leaves the table as it was; after a call
\* that returns Ok the table has as many rows as the directory has .fits files.
C12_FrameAndErrors ==
    updResult.kind # "pending" =>
        /\ (updReadable /\ Len(Candidates(updEntries)) = Height(updBefore))
              => (updResult.kind = "ok" /\ updDf = updBefore)
        /\ (updReadable /\ Len(Candidates(updEntries)) < Height(updBefore))
              => (updResult.kind = "err"
                  /\ updResult.err = "Files out of sync with loaded data, Restart")
        /\ updResult.kind = "err" => updDf = updBefore
        /\ updResult.kind = "ok" => Height(updDf) = Len(Candidates(updEntries))

=============================================================================
